---- MODULE Spec2Model ----
(***************************************************************************)
(* WarnPing relay (src/server.js): a SQLite table of warnings, one-shot    *)
(* expiry timers (setTimeout), and two transports (Socket.IO and native    *)
(* WebSocket) that carry issue / expire commands in and broadcasts out.    *)
(*                                                                         *)
(* Node runs every handler to completion on one event loop, so each        *)
(* handler is one atomic action.  Time is in milliseconds; SQLite's        *)
(* datetime() keeps whole seconds only.  A write to the table may fail     *)
(* (dbOk = FALSE: the statement throws and changes nothing); reads do not. *)
(***************************************************************************)
EXTENDS Integers, Sequences, FiniteSets, Bags, TLC

(* ---------------------------- bounds ----------------------------------- *)
\* inbound commands (issue / expire events and frames) handled in one run
MaxCmds == 2
\* the clock runs over the minutes 0..MaxMinute
MaxMinute == 1
\* expire broadcasts counted per id and activation episode (the count saturates)
MaxExpired == 2

(* ------------------------ program constants ---------------------------- *)
MsPerMinute == 60000
MinMinutes == 1
MaxMinutes == 1440
MsPerSecond == 1000

(* ----------------------------- inputs ---------------------------------- *)
Ids == {"W1", "W2"}
Null == "null"
\* the empty string: an id that is a string and is falsy
EmptyId == ""
\* the ids an expire command may name
ExpireIds == Ids \cup {EmptyId}
IoClients == {"s1"}
WsSockets == {"w1", "w2"}
\* the native sockets of a run with a single native client
OneSocket == {"w1"}
Clients == IoClients \cup WsSockets

\* offsets inside a second at which the clock is observed
SubSecond == {0, 500}
Instants == {m * MsPerMinute + h : m \in 0..MaxMinute, h \in SubSecond \cup {MsPerSecond}}
LastInstant == MaxMinute * MsPerMinute + MsPerSecond

\* issuedISO as the caller writes it: fmt "iso" is a timestamp new Date() parses
\* (ms is its epoch value), "nodate" matches /^\d{4}-\d{2}-\d{2}T/ but is no date
\* (2024-99-99Tx), "text" does not match the pattern, "null" is absent.
Iso(ms) == [fmt |-> "iso", ms |-> ms]
NoDate == [fmt |-> "nodate", ms |-> 0]
NotIso == [fmt |-> "text", ms |-> 0]
NoIso == [fmt |-> "null", ms |-> 0]

\* minutes as the caller writes it: t "num" is a number, "nan" a value Number()
\* turns into NaN, "null" is absent.
Num(v) == [t |-> "num", v |-> v]
NotNum == [t |-> "nan", v |-> 0]
NoNum == [t |-> "null", v |-> 0]

\* expiresISO a caller may put in the payload (-1: none)
NoExpires == -1

Payload(id, iso, m, x) ==
  [kind |-> "object", id |-> id, type |-> "TOR", polygon |-> "rings",
   issuedISO |-> iso, minutes |-> m, expiresISO |-> x]

GoodPayloads ==
  {Payload("W1", Iso(ms), Num(1), NoExpires) : ms \in SubSecond}
    \cup {Payload("W1", Iso(0), Num(1), 2 * MsPerMinute)}

\* payloads validateIssue lets through although a field is out of its domain:
\* polygon an empty array
OddPayloads == {[Payload("W2", Iso(0), Num(2), NoExpires) EXCEPT !.polygon = "empty"]}

BasePayload == Payload("W1", Iso(0), Num(1), NoExpires)

BadPayloads ==
  { [BasePayload EXCEPT !.kind = "undefined"],
    [BasePayload EXCEPT !.id = Null],
    [BasePayload EXCEPT !.type = Null],
    [BasePayload EXCEPT !.polygon = Null],
    [BasePayload EXCEPT !.polygon = "text"],
    [BasePayload EXCEPT !.issuedISO = NoIso],
    [BasePayload EXCEPT !.issuedISO = NotIso],
    [BasePayload EXCEPT !.issuedISO = NoDate],
    [BasePayload EXCEPT !.minutes = NoNum],
    [BasePayload EXCEPT !.minutes = NotNum],
    [BasePayload EXCEPT !.minutes = Num(0)],
    [BasePayload EXCEPT !.minutes = Num(MaxMinutes + 1)] }

Payloads == GoodPayloads \cup OddPayloads \cup BadPayloads

(* ----------------------------- state ----------------------------------- *)
VARIABLES
  up,          \* the process is running
  now,         \* Date.now() / datetime('now'), in ms
  store,       \* the warnings table: a set of rows, id is the primary key
  timers,      \* pending setTimeout callbacks: a bag of [id, at]
  ioClients,   \* sockets in the Socket.IO broadcast room
  wsClients,   \* the wsClients Set, in insertion order (the order it iterates in)
  inbox,       \* what each subscriber has received on its current connection
  ncmd,        \* inbound commands handled so far
  expired,     \* per id: expire broadcasts since the id was last issued
  last,        \* the handler that ran last and how it ended
  resp         \* the HTTP response the last step sent, NoResp if none

vars == <<up, now, store, timers, ioClients, wsClients, inbox, ncmd, expired, last, resp>>

Sec(ms) == ms \div MsPerSecond

(* ------------------------- Warning Store ------------------------------- *)
\* INSERT OR REPLACE: the row with this id, if any, is deleted and the new row
\* inserted; created_at is not among the inserted columns and takes its default.
insertWarning(st, row, t) ==
  {r \in st : r.id # row.id} \cup {[row EXCEPT !.created_at = Sec(t)]}

\* UPDATE warnings SET active = 0 without the WHERE clause
expireById_everyRow(st, id) ==
  {[r EXCEPT !.active = 0] : r \in st}

expireById(st, id) ==
  {IF r.id = id THEN [r EXCEPT !.active = 0] ELSE r : r \in st}

getActive(st, t) ==
  {r \in st : r.active = 1 /\ Sec(r.expiresISO) > Sec(t)}

\* JSON.stringify(payload.polygon) and JSON.parse(row.polygon): the polygon column
\* holds text
JSONstringify(x) == <<"json", x>>
JSONparse(s) == s[2]

(* ------------------------- history endpoint ---------------------------- *)
MsPerDay == 86400000
\* substr(issuedISO,1,10): the calendar day of a stored issuedISO, as days from
\* the day of instant 0
DayOf(ms) == ms \div MsPerDay

\* ?date= values: shape "ymd" matches /^\d{4}-\d{2}-\d{2}$/, cal tells whether the
\* digits are a calendar date (2024-99-99 is not), day is its day
Date(shape, cal, day) == [shape |-> shape, cal |-> cal, day |-> day]
NoQuery == Date("none", FALSE, 0)
Dates == {Date("ymd", TRUE, 0), Date("ymd", TRUE, 1), Date("ymd", FALSE, 0),
          Date("text", FALSE, 0), Date("empty", FALSE, 0)}

NoResp == [date |-> NoQuery, status |-> 0, warnings |-> <<>>]

\* SELECT * FROM warnings WHERE substr(issuedISO,1,10) = ? ORDER BY issuedISO ASC:
\* the results the statement can give (rows with equal issuedISO come in any order)
getByDate(st, d) ==
  LET rows == {r \in st : d.cal /\ DayOf(r.issuedISO) = d.day}
  IN  {q \in [1..Cardinality(rows) -> rows] :
         /\ \A i, j \in DOMAIN q : i # j => q[i] # q[j]
         /\ \A i, j \in DOMAIN q : i < j => q[i].issuedISO <= q[j].issuedISO}

\* app.get("/warnings"): 400 unless the date matches the pattern, else the rows
\* with polygon parsed
getWarnings(d, q) ==
  IF d.shape # "ymd" THEN [date |-> d, status |-> 400, warnings |-> <<>>]
  ELSE [date |-> d, status |-> 200,
        warnings |-> [k \in DOMAIN q |-> [q[k] EXCEPT !.polygon = JSONparse(@)]]]

(* --------------------------- messages ---------------------------------- *)
BootstrapMsg(rows) == [kind |-> "bootstrap", id |-> Null, expiresISO |-> NoExpires, warnings |-> rows]
IssueMsg(id, x) == [kind |-> "issue", id |-> id, expiresISO |-> x, warnings |-> {}]
ExpireMsg(id) == [kind |-> "expire", id |-> id, expiresISO |-> NoExpires, warnings |-> {}]

Range(q) == {q[k] : k \in 1..Len(q)}
Without(q, c) == SelectSeq(q, LAMBDA x : x # c)

\* for (const client of wsClients) client.send(json): the sockets before the first
\* whose send throws get the message; a socket is in wsClients from its connection
\* to its close event and is OPEN (readyState 1) all that time here
sentTo(ws, bad) ==
  {ws[k] : k \in {j \in 1..Len(ws) : \A i \in 1..j : ws[i] \notin bad}}

\* broadcast with the native loop run before io.emit
broadcast_wsFirst(box, io, ws, msgs, bad) ==
  LET threw == msgs # <<>> /\ Range(ws) \cap bad # {}
      got == sentTo(ws, bad) \cup (IF threw THEN {} ELSE io)
  IN  [box |-> [c \in Clients |-> IF c \in got THEN box[c] \o msgs ELSE box[c]],
       threw |-> threw]

\* io.emit to every socket of the room, then send to the native clients; bad are
\* the sockets whose send throws; threw tells whether broadcast threw
broadcast(box, io, ws, msgs, bad) ==
  LET got == io \cup sentTo(ws, bad)
  IN  [box |-> [c \in Clients |-> IF c \in got THEN box[c] \o msgs ELSE box[c]],
       threw |-> msgs # <<>> /\ Range(ws) \cap bad # {}]

(* ------------------------- Expiry Scheduler ---------------------------- *)
scheduleExpiry(tm, id, expiresISO, t) ==
  LET ms == expiresISO - t
  IN  IF ms <= 0 THEN tm ELSE tm (+) SetToBag({[id |-> id, at |-> t + ms]})

\* the setTimeout callback: expireById.run(id); broadcast("expire", {id}), in a try
\* the callback with the broadcast before the write
timerCallback_announceFirst(st, id, dbOk) ==
  IF dbOk THEN [store |-> expireById(st, id), out |-> <<ExpireMsg(id)>>, res |-> "ok"]
          ELSE [store |-> st, out |-> <<ExpireMsg(id)>>, res |-> "dberror"]

timerCallback(st, id, dbOk) ==
  IF dbOk THEN [store |-> expireById(st, id), out |-> <<ExpireMsg(id)>>, res |-> "ok"]
          ELSE [store |-> st, out |-> <<>>, res |-> "dberror"]

(* ----------------------- Lifecycle Controller -------------------------- *)
\* TRUE when validateIssue returns, FALSE when it throws
validateIssue(p) ==
  /\ p.kind = "object"
  /\ p.id # Null /\ p.type # Null /\ p.polygon # Null
  /\ p.issuedISO.fmt # "null" /\ p.minutes.t # "null"
  /\ p.polygon \in {"rings", "empty"}
  /\ p.issuedISO.fmt \in {"iso", "nodate"}
  /\ p.minutes.t = "num"
  /\ ~(p.minutes.v < MinMinutes \/ p.minutes.v > MaxMinutes)

\* what handleIssue leaves when it throws into its catch: nothing done
aborted(st, tm, res) == [store |-> st, timers |-> tm, out |-> <<>>, res |-> res]

\* the row handleIssue builds (created_at is the table's default, set on insert)
issueRow(p, expiresISO) ==
  [id |-> p.id, type |-> p.type, polygon |-> JSONstringify(p.polygon),
   issuedISO |-> p.issuedISO.ms, minutes |-> p.minutes.v,
   expiresISO |-> expiresISO, active |-> 1, created_at |-> 0]

\* insertWarning.run(row); scheduleExpiry(...); broadcast("issue", ...)
announced(st, tm, row, t) ==
  [store |-> insertWarning(st, row, t),
   timers |-> scheduleExpiry(tm, row.id, row.expiresISO, t),
   out |-> <<IssueMsg(row.id, row.expiresISO)>>,
   res |-> "ok"]

\* handleIssue taking the caller's expiresISO when the payload carries one
handleIssue_callerExpiry(st, tm, p, dbOk, t) ==
  IF ~validateIssue(p) THEN aborted(st, tm, "invalid")
  ELSE IF p.issuedISO.fmt # "iso" THEN aborted(st, tm, "rangeerror")
  ELSE IF ~dbOk THEN aborted(st, tm, "dberror")
  ELSE LET expiresISO == IF p.expiresISO # NoExpires THEN p.expiresISO
                         ELSE p.issuedISO.ms + p.minutes.v * MsPerMinute
       IN  announced(st, tm, issueRow(p, expiresISO), t)

\* handleIssue logging a validation error and carrying on
handleIssue_noAbort(st, tm, p, dbOk, t) ==
  IF p.kind # "object" \/ p.id = Null \/ p.issuedISO.fmt # "iso"
    THEN aborted(st, tm, "invalid")
  ELSE IF ~dbOk THEN aborted(st, tm, "dberror")
  ELSE LET r == announced(st, tm, issueRow(p, p.issuedISO.ms + p.minutes.v * MsPerMinute), t)
       IN  [r EXCEPT !.res = IF validateIssue(p) THEN "ok" ELSE "invalid"]

\* handleIssue arming and broadcasting before the Store write
handleIssue_announceFirst(st, tm, p, dbOk, t) ==
  IF ~validateIssue(p) THEN aborted(st, tm, "invalid")
  ELSE IF p.issuedISO.fmt # "iso" THEN aborted(st, tm, "rangeerror")
  ELSE LET r == announced(st, tm, issueRow(p, p.issuedISO.ms + p.minutes.v * MsPerMinute), t)
       IN  IF dbOk THEN r ELSE [r EXCEPT !.store = st, !.res = "dberror"]

handleIssue(st, tm, p, dbOk, t) ==
  IF ~validateIssue(p) THEN aborted(st, tm, "invalid")
  ELSE IF p.issuedISO.fmt # "iso" THEN aborted(st, tm, "rangeerror")
  ELSE LET expiresISO == p.issuedISO.ms + p.minutes.v * MsPerMinute
           row == issueRow(p, expiresISO)
       IN  IF ~dbOk THEN aborted(st, tm, "dberror")
           ELSE announced(st, tm, row, t)

handleExpire(st, id, dbOk) ==
  IF dbOk THEN [store |-> expireById(st, id), out |-> <<ExpireMsg(id)>>, res |-> "ok"]
          ELSE [store |-> st, out |-> <<>>, res |-> "dberror"]

(* ----------------------------- Init ------------------------------------ *)
Done(op, id, res, valid) == [op |-> op, id |-> id, res |-> res, valid |-> valid]
\* no command or timer ran in the last step
Idle == Done("none", Null, "ok", TRUE)

Init ==
  /\ up = TRUE
  /\ now = 0
  /\ store = {}
  /\ timers = EmptyBag
  /\ ioClients = {}
  /\ wsClients = <<>>
  /\ inbox = [c \in Clients |-> <<>>]
  /\ ncmd = 0
  /\ expired = [i \in Ids |-> 0]
  /\ last = Idle
  /\ resp = NoResp

(* ------------------------ inbound frames ------------------------------- *)
\* a native-WebSocket frame: json is whether JSON.parse succeeds; kind, payload and
\* id are the parsed message's fields (payload of kind "undefined", id Null: absent)
Absent == [BasePayload EXCEPT !.kind = "undefined"]
Frame(json, kind, payload, id) == [json |-> json, kind |-> kind, payload |-> payload, id |-> id]
JunkFrames ==
  { Frame(FALSE, Null, Absent, Null),
    Frame(TRUE, Null, Absent, Null),
    Frame(TRUE, "hello", Absent, Null),
    Frame(TRUE, "issue", Absent, Null),
    Frame(TRUE, "expire", Absent, Null) }
Frames ==
  JunkFrames
    \cup {Frame(TRUE, "issue", p, Null) : p \in Payloads \ {Absent}}
    \cup {Frame(TRUE, "expire", Absent, i) : i \in ExpireIds}

\* the argument of a Socket.IO "expire" event
ExpireArg(i) == [kind |-> "object", id |-> i]
ExpireArgs == {ExpireArg(i) : i \in ExpireIds} \cup {[kind |-> "undefined", id |-> Null]}

(* ------------------------ per-transport handlers ----------------------- *)
\* what a handler did: the command it ran (op, id), how that ended (res), the
\* table and timers it leaves and the messages it handed to broadcast
Effect(op, id, r, tm) ==
  [op |-> op, id |-> id, res |-> r.res, store |-> r.store, timers |-> tm, out |-> r.out]

\* socket.on("issue", payload => handleIssue(payload, "io"))
onIoIssue(st, tm, p, dbOk, t) ==
  LET r == handleIssue(st, tm, p, dbOk, t)
  IN  Effect("issue", IF p.kind = "object" THEN p.id ELSE Null, r, r.timers)

\* socket.on("expire", ({ id }) => handleExpire(id, "io")): the parameter is
\* destructured before handleExpire's try is entered
onIoExpire(st, tm, arg, dbOk) ==
  IF arg.kind = "undefined"
    THEN Effect("expire", Null, aborted(st, tm, "uncaught"), tm)
    ELSE Effect("expire", arg.id, handleExpire(st, arg.id, dbOk), tm)

\* a value JavaScript takes as true in a condition
Truthy(x) == x \notin {Null, EmptyId}

\* ws.on("message") handing every frame of kind expire to handleExpire
wsCommand_noIdCheck(f) ==
  IF ~f.json \/ ~Truthy(f.kind) THEN "none"
  ELSE IF f.kind = "issue" /\ f.payload.kind # "undefined" THEN "issue"
  ELSE IF f.kind = "expire" THEN "expire"
  ELSE "none"

\* the command ws.on("message") finds in a frame
wsCommand(f) ==
  IF ~f.json \/ ~Truthy(f.kind) THEN "none"
  ELSE IF f.kind = "issue" /\ f.payload.kind # "undefined" THEN "issue"
  ELSE IF f.kind = "expire" /\ Truthy(f.id) THEN "expire"
  ELSE "none"

\* ws.on("message")
onWsMessage(st, tm, f, dbOk, t) ==
  LET cmd == wsCommand(f)
  IN  IF cmd = "issue"
        THEN LET r == handleIssue(st, tm, f.payload, dbOk, t)
             IN  Effect("issue", IF f.payload.kind = "object" THEN f.payload.id ELSE Null, r, r.timers)
      ELSE IF cmd = "expire"
        THEN Effect("expire", f.id, handleExpire(st, f.id, dbOk), tm)
      ELSE Effect(IF f.json /\ f.kind \in {"issue", "expire"} THEN f.kind ELSE "drop",
                  IF f.json /\ f.kind = "expire" THEN f.id ELSE Null,
                  aborted(st, tm, "dropped"), tm)

(* ----------------------------- actions --------------------------------- *)
\* expire broadcasts per id since its last issue
Count(cnt, out) ==
  [i \in Ids |->
     IF \E k \in 1..Len(out) : out[k].kind = "issue" /\ out[k].id = i THEN 0
     ELSE IF \E k \in 1..Len(out) : out[k].kind = "expire" /\ out[k].id = i
       THEN IF cnt[i] < MaxExpired THEN cnt[i] + 1 ELSE cnt[i]
     ELSE cnt[i]]

\* io.on("connection"): the socket is in the room, then gets its bootstrap
IoConnect(c) ==
  /\ up /\ c \in IoClients \ ioClients
  /\ ioClients' = ioClients \cup {c}
  /\ inbox' = [inbox EXCEPT ![c] = <<BootstrapMsg(getActive(store, now))>>]
  /\ last' = Idle
  /\ resp' = NoResp
  /\ UNCHANGED <<up, now, store, timers, wsClients, ncmd, expired>>

IoDisconnect(c) ==
  /\ up /\ c \in ioClients
  /\ ioClients' = ioClients \ {c}
  /\ inbox' = [inbox EXCEPT ![c] = <<>>]
  /\ last' = Idle
  /\ resp' = NoResp
  /\ UNCHANGED <<up, now, store, timers, wsClients, ncmd, expired>>

\* wss.on("connection")
WsConnect(c) ==
  /\ up /\ c \in WsSockets \ Range(wsClients)
  /\ wsClients' = Append(wsClients, c)
  /\ inbox' = [inbox EXCEPT ![c] = <<BootstrapMsg(getActive(store, now))>>]
  /\ last' = Idle
  /\ resp' = NoResp
  /\ UNCHANGED <<up, now, store, timers, ioClients, ncmd, expired>>

\* ws.on("close")
WsClose(c) ==
  /\ up /\ c \in Range(wsClients)
  /\ wsClients' = Without(wsClients, c)
  /\ inbox' = [inbox EXCEPT ![c] = <<>>]
  /\ last' = Idle
  /\ resp' = NoResp
  /\ UNCHANGED <<up, now, store, timers, ioClients, ncmd, expired>>

\* the process dies: timers and connections go with it
Dies(op, res) ==
  /\ up' = FALSE
  /\ timers' = EmptyBag
  /\ ioClients' = {}
  /\ wsClients' = <<>>
  /\ inbox' = [c \in Clients |-> <<>>]
  /\ last' = Done(op, Null, res, TRUE)
  /\ resp' = NoResp
  /\ UNCHANGED <<now, store, expired>>

\* a handler's effect takes place: its broadcast is delivered and a throw out of
\* broadcast lands in the handler's catch
Handled(e, valid, bad) ==
  LET b == broadcast(inbox, ioClients, wsClients, e.out, bad)
  IN  /\ store' = e.store
      /\ timers' = e.timers
      /\ inbox' = b.box
      /\ expired' = Count(expired, e.out)
      /\ last' = Done(e.op, e.id, IF b.threw THEN "senderror" ELSE e.res, valid)
      /\ ncmd' = ncmd + 1
      /\ resp' = NoResp
      /\ UNCHANGED <<up, now, ioClients, wsClients>>

IoIssue(c, p, dbOk, bad) ==
  /\ up /\ c \in ioClients /\ ncmd < MaxCmds
  /\ Handled(onIoIssue(store, timers, p, dbOk, now), p \notin BadPayloads, bad)

IoExpire(c, arg, dbOk, bad) ==
  /\ up /\ c \in ioClients /\ ncmd < MaxCmds
  /\ LET e == onIoExpire(store, timers, arg, dbOk)
     IN  IF e.res = "uncaught"
           THEN /\ Dies("expire", "uncaught")
                /\ ncmd' = ncmd + 1
           ELSE Handled(e, TRUE, bad)

\* a frame arrives on a native socket; frames that hold no command are recorded
\* as "drop"
WsMessage(c, f, dbOk, bad) ==
  /\ up /\ c \in Range(wsClients) /\ ncmd < MaxCmds
  /\ LET e == onWsMessage(store, timers, f, dbOk, now)
     IN  Handled(IF f \in JunkFrames THEN [e EXCEPT !.op = "drop", !.id = Null, !.res = "ok"] ELSE e,
                 f \notin JunkFrames /\ (f.kind = "expire" \/ f.payload \notin BadPayloads), bad)

\* a pending timer whose delay has elapsed runs its callback
TimerFire(t, dbOk, bad) ==
  /\ up /\ BagIn(t, timers) /\ t.at <= now
  /\ LET r == timerCallback(store, t.id, dbOk)
         b == broadcast(inbox, ioClients, wsClients, r.out, bad)
     IN  /\ store' = r.store
         /\ inbox' = b.box
         /\ expired' = Count(expired, r.out)
         /\ last' = Done("fire", t.id, IF b.threw THEN "senderror" ELSE r.res, TRUE)
  /\ timers' = timers (-) SetToBag({t})
  /\ resp' = NoResp
  /\ UNCHANGED <<up, now, ioClients, wsClients, ncmd>>

\* any pending timer that is due fires
Fire(Bad) == \E t \in BagToSet(timers), dbOk \in BOOLEAN, bad \in Bad : TimerFire(t, dbOk, bad)

\* time passes to the next instant; a running process runs its due timers first
Tick ==
  /\ now < LastInstant
  /\ \A t \in BagToSet(timers) : t.at > now
  /\ now' = CHOOSE i \in Instants : i > now /\ \A j \in Instants : j > now => i <= j
  /\ last' = Idle
  /\ resp' = NoResp
  /\ UNCHANGED <<up, store, timers, ioClients, wsClients, inbox, ncmd, expired>>

\* the process is killed
Kill ==
  /\ up
  /\ Dies("kill", "ok")
  /\ UNCHANGED ncmd

\* for (const row of getActive.all()) scheduleExpiry(row.id, row.expiresISO)
RECURSIVE reschedule(_, _, _)
reschedule(rows, tm, t) ==
  IF rows = {} THEN tm
  ELSE LET row == CHOOSE r \in rows : TRUE
       IN  reschedule(rows \ {row}, scheduleExpiry(tm, row.id, row.expiresISO, t), t)

\* the process starts on the table the last run left
Boot ==
  /\ ~up
  /\ up' = TRUE
  /\ timers' = reschedule(getActive(store, now), EmptyBag, now)
  /\ last' = Idle
  /\ resp' = NoResp
  /\ UNCHANGED <<now, store, ioClients, wsClients, inbox, ncmd, expired>>

\* one step of the event loop; Ws are the native sockets that connect, Bad holds
\* the sets of native sockets whose send may throw during the step
Step(Ws, Bad) ==
  \/ \E c \in IoClients \cup Ws : IoConnect(c) \/ IoDisconnect(c) \/ WsConnect(c) \/ WsClose(c)
  \/ \E c \in Clients, p \in Payloads, dbOk \in BOOLEAN, bad \in Bad : IoIssue(c, p, dbOk, bad)
  \/ \E c \in Clients, arg \in ExpireArgs, dbOk \in BOOLEAN, bad \in Bad : IoExpire(c, arg, dbOk, bad)
  \/ \E c \in Clients, f \in Frames, dbOk \in BOOLEAN, bad \in Bad : WsMessage(c, f, dbOk, bad)
  \/ Fire(Bad)
  \/ Tick
  \/ Kill
  \/ Boot

\* GET /warnings?date=d
Query(d) ==
  /\ up
  /\ \E q \in getByDate(store, d) : resp' = getWarnings(d, q)
  /\ last' = Idle
  /\ UNCHANGED <<up, now, store, timers, ioClients, wsClients, inbox, ncmd, expired>>

\* send on an OPEN socket returns normally
Next == Step(OneSocket, {{}})

Spec == Init /\ [][Next]_vars

\* the native client's socket is broken: every send on it throws
NextF == Step(OneSocket, {OneSocket})

SpecF == Init /\ [][NextF]_vars

\* the history endpoint is queried as well
NextQ == Next \/ \E d \in Dates : Query(d)

SpecQ == Init /\ [][NextQ]_vars

\* two native clients, the send on the first may throw
NextW == Step(WsSockets, {{}, OneSocket})

SpecW == Init /\ [][NextW]_vars

(* ----------------------------- claims ---------------------------------- *)
Connected == ioClients \cup Range(wsClients)
TimersOf(id) == {t \in BagToSet(timers) : t.id = id}
\* the last step ran a command or timer for id and it ended res
Ran(op, res) == last.op = op /\ last.res = res

\* C1: a timer that fires for an id whose stored row is active and has not reached
\* its own expiresISO (the timer of an earlier issue of that id) leaves the row
\* active and broadcasts nothing.
C1_ReissueCancelsTimer ==
  [][(last'.op = "fire" /\ \E r \in store : r.id = last'.id /\ r.active = 1 /\ r.expiresISO > now)
       => /\ \A r \in store' : r.id = last'.id => r.active = 1
          /\ inbox' = inbox]_vars

\* C2: since an id was last issued, at most one expire broadcast names it, whatever
\* mix of expire commands and timers produced them.
C2_OneExpirePerEpisode ==
  \A i \in Ids : (\E r \in store : r.id = i) => expired[i] <= 1

\* C3: when the process starts again, every stored warning that is active and has
\* its expiresISO still ahead is armed again, with a timer due at that expiresISO.
C3_RestartRearms ==
  [][(~up /\ up')
       => \A r \in store' : (r.active = 1 /\ r.expiresISO > now')
            => BagIn([id |-> r.id, at |-> r.expiresISO], timers')]_vars

\* C4: the first message of a newly connected subscriber, on either transport, is
\* a bootstrap holding exactly the rows with active = 1 and expiresISO > now.
C4_BootstrapIsActiveSet ==
  [][\A c \in Clients : (c \notin Connected /\ c \in Connected')
       => inbox'[c] = <<BootstrapMsg({r \in store : r.active = 1 /\ r.expiresISO > now})>>]_vars

C6_InvalidIssueChangesNothing ==
  [][(last'.op = "issue" /\ ~last'.valid)
       => store' = store /\ timers' = timers /\ inbox' = inbox]_vars

C6_Witness ==
  /\ last.op = "issue" /\ ~last.valid /\ last.res = "invalid"
  /\ store # {} /\ timers # EmptyBag /\ Connected = IoClients \cup OneSocket

\* C7: an issue whose Store write fails leaves the table, the timers and every
\* subscriber's messages as they were; and whenever a running process arms a timer
\* or broadcasts an issue, the table holds the active row it is for.
C7_PersistedThenAnnounced ==
  [][/\ (last'.op = "issue" /\ last'.res = "dberror")
        => store' = store /\ timers' = timers /\ inbox' = inbox
     /\ up => \A t \in BagToSet(timers') :
          CopiesIn(t, timers') > CopiesIn(t, timers)
            => \E r \in store' : r.id = t.id /\ r.expiresISO = t.at /\ r.active = 1
     /\ \A c \in Clients :
          (Len(inbox'[c]) > Len(inbox[c]) /\ inbox'[c][Len(inbox'[c])].kind = "issue")
            => \E r \in store' : /\ r.id = inbox'[c][Len(inbox'[c])].id
                                  /\ r.expiresISO = inbox'[c][Len(inbox'[c])].expiresISO
                                  /\ r.active = 1]_vars

C7_Witness ==
  /\ Ran("issue", "dberror")
  /\ \E r \in store : r.id = last.id
  /\ TimersOf(last.id) # {} /\ Connected = IoClients \cup OneSocket

\* C8: the process is still running after any inbound issue or expire event or
\* native frame has been handled.
C8_NoInboundCrash ==
  last.op \in {"issue", "expire", "drop"} => up

\* C9: at most one timer is pending for any id.
C9_OneTimerPerId ==
  \A t \in BagToSet(timers) :
    CopiesIn(t, timers) = 1 /\ \A u \in BagToSet(timers) : u.id = t.id => u = t

\* C10: right after an expire command for an id has been applied, no timer is
\* pending for that id.
C10_ExpireDisarms ==
  Ran("expire", "ok") => TimersOf(last.id) = {}

\* C11: every issue or expire broadcast reaches exactly the subscribers connected
\* when it is made, the same message on both transports: in a step of a handler or
\* a timer only connected subscribers receive, each receives one message, all
\* receive the same one, and when one subscriber receives, every connected
\* subscriber whose own send does not fail (the sockets outside OneSocket) receives.
C11_DeliveredToConnected ==
  [][last'.op \in {"issue", "expire", "fire"} /\ up'
       => LET got == {c \in Clients : inbox'[c] # inbox[c]}
          IN  /\ got \subseteq Connected
              /\ got # {} => Connected \ OneSocket \subseteq got
              /\ \A c, d \in got :
                    /\ Len(inbox'[c]) = Len(inbox[c]) + 1
                    /\ inbox'[c] = Append(inbox[c], inbox'[d][Len(inbox'[d])])]_vars

\* C12: no issue whose polygon is empty is applied: no stored row has a polygon
\* other than a non-empty array of rings.
C12_RejectsEmptyPolygon ==
  \A r \in store : JSONparse(r.polygon) = "rings"

\* C13: a by-date query for a date that is not a well-formed calendar date is
\* answered with a client error and no rows.
C13_BadDateIsClientError ==
  resp.status # 0 /\ ~resp.date.cal => resp.status = 400 /\ resp.warnings = <<>>

\* C14: when the send to a native subscriber throws during the broadcast of an
\* issue, an expire or a timer firing, every connected Socket.IO subscriber has
\* still received the event, and the store write and the timer armed by that
\* transition stay.
C14_SendFailureIsolated ==
  [][last'.res = "senderror"
       => /\ \A c \in ioClients :
               /\ Len(inbox'[c]) = Len(inbox[c]) + 1
               /\ inbox'[c][Len(inbox'[c])].id = last'.id
               /\ inbox'[c][Len(inbox'[c])].kind = IF last'.op = "issue" THEN "issue" ELSE "expire"
          /\ last'.op = "issue"
               => \E r \in store' :
                    /\ r.id = last'.id /\ r.active = 1
                    /\ r.expiresISO > now => BagIn([id |-> r.id, at |-> r.expiresISO], timers')
          /\ last'.op \in {"expire", "fire"}
               => \A r \in store' : r.id = last'.id => r.active = 0]_vars

C14_Witness ==
  /\ Ran("issue", "senderror") /\ ioClients # {}
  /\ \A c \in ioClients : inbox[c][Len(inbox[c])].kind = "issue"
  /\ TimersOf(last.id) # {}
  /\ \A c \in Range(wsClients) : Len(inbox[c]) = 1

\* C15: a row that is active with its expiresISO already reached and that was not
\* armed (no timer pending at its expiresISO) keeps active = 1 through every step
\* that is not an issue or an expire of its id.
C15_OverdueRowKeepsActive ==
  [][\A r \in store :
       /\ r.active = 1 /\ r.expiresISO <= now
       /\ ~BagIn([id |-> r.id, at |-> r.expiresISO], timers)
       /\ ~(last'.op \in {"issue", "expire"} /\ last'.id = r.id)
       => r \in store']_vars

\* C16: an issue, an expire or a timer firing for one id leaves every other id's
\* row (all fields) and pending timers unchanged and sends no message naming the
\* other id.
C16_OtherIdsUntouched ==
  [][last'.op \in {"issue", "expire", "fire"} /\ up'
       => \A b \in Ids \ {last'.id} :
            /\ {r \in store' : r.id = b} = {r \in store : r.id = b}
            /\ \A t \in TimersOf(b) \cup {u \in BagToSet(timers') : u.id = b} :
                 CopiesIn(t, timers') = CopiesIn(t, timers)
            /\ \A c \in Clients : \A k \in 1..Len(inbox'[c]) :
                 k > Len(inbox[c]) => inbox'[c][k].id # b]_vars

C16_Witness ==
  /\ Ran("fire", "ok") /\ last.id = "W1"
  /\ \E r \in store : r.id = "W1" /\ r.active = 0
  /\ \E r \in store : r.id = "W2" /\ r.active = 1
  /\ TimersOf("W2") # {}

\* C17: a native frame that holds no recognized command (unparsable JSON, no kind,
\* unknown kind, issue without payload, expire without id) changes neither the
\* store nor the timers, and no subscriber receives anything.
C17_JunkFrameDropped ==
  [][last'.op = "drop" => store' = store /\ timers' = timers /\ inbox' = inbox /\ up']_vars

C17_Witness ==
  /\ last.op = "drop" /\ up
  /\ \E r \in store : r.active = 1 /\ TimersOf(r.id) # {}
  /\ ioClients # {} /\ wsClients # <<>>

\* C18: when expireById fails in a timer callback the process goes on, the table
\* is unchanged, no subscriber receives anything and no timer is added; and a
\* start of the process arms no timer for a row whose expiresISO is reached and
\* does not report it active.
C18_FailedFireLeftToRestart ==
  [][/\ last'.op = "fire" /\ last'.res = "dberror"
          => /\ up' /\ store' = store /\ inbox' = inbox
             /\ \A t \in BagToSet(timers') : CopiesIn(t, timers') <= CopiesIn(t, timers)
     /\ ~up /\ up'
          => \A r \in store' :
               r.expiresISO <= now'
                 => /\ r \notin getActive(store', now')
                    /\ \A t \in BagToSet(timers') : t.id # r.id]_vars

C18_Witness ==
  /\ Ran("fire", "dberror") /\ Connected # {}
  /\ \E r \in store : r.id = last.id /\ r.active = 1 /\ r.expiresISO <= now /\ TimersOf(r.id) = {}

\* C19: the created_at of a stored id never changes, and a stored id stays stored:
\* every row of the table has, after any step, a row of the same id and the same
\* created_at.
C19_CreatedAtSetOnce ==
  [][\A r \in store : \E r2 \in store' : r2.id = r.id /\ r2.created_at = r.created_at]_vars

\* C20: in every state, every issue payload and every expire id has the same
\* outcome on both transports: the same table, the same timers and the same
\* messages delivered to every subscriber.
C20_TransportNeutral ==
  LET Same(a, b) ==
        /\ a.store = b.store /\ a.timers = b.timers
        /\ broadcast(inbox, ioClients, wsClients, a.out, {}).box
             = broadcast(inbox, ioClients, wsClients, b.out, {}).box
  IN  up => \A dbOk \in BOOLEAN :
        /\ \A p \in Payloads \ {Absent} :
             Same(onIoIssue(store, timers, p, dbOk, now),
                  onWsMessage(store, timers, Frame(TRUE, "issue", p, Null), dbOk, now))
        /\ \A i \in ExpireIds :
             Same(onIoExpire(store, timers, ExpireArg(i), dbOk),
                  onWsMessage(store, timers, Frame(TRUE, "expire", Absent, i), dbOk, now))

====
